---- MODULE Spec2Model ----
(***************************************************************************)
(* The MMLU multiple-choice notebooks of deepeval_studies (0-shot and      *)
(* 2-shot): the benchmark tables read with pd.read_csv, the prompt         *)
(* formatter of the reuse module (format_example, gen_prompt), the         *)
(* evaluation loop over range(35, 55) and the grade cell.                  *)
(*                                                                         *)
(* Texts are TLA+ strings, built with \o exactly as the Python code        *)
(* concatenates them, so that a rendered prompt can be compared with the   *)
(* literal text and searched for a marker.                                 *)
(*                                                                         *)
(* The reuse module itself is not among the sources; the text its two      *)
(* functions produce is taken from the prompts the notebooks display       *)
(* (recorded cell outputs), which show every piece of the rendering.       *)
(***************************************************************************)
EXTENDS Integers, Sequences, FiniteSets, TLC

VARIABLES
    \* ---- formatter harness (SpecFmt): the pure functions on drawn inputs
    rows,        \* the table handed to the formatter
    fop,         \* which call was made last: "none", "format_example", "gen_prompt", "prompt"
    farg,        \* its arguments [idx, inc, topic, k]
    fout,        \* the text it returned (NoText when it raised)
    ferr,        \* "none" or the error it raised
    \* ---- the environment of a notebook
    api_key,     \* what os.getenv("OPENAI_API_KEY") gives after load_dotenv
    \* ---- notebook pipeline (Spec)
    shots,       \* 0: the 0-shot notebook, 2: the 2-shot notebook
    fs_test,     \* which anatomy_test.csv is on disk
    df_test,     \* the evaluation table (df in the 0-shot notebook, df_test in the 2-shot one)
    df_val,      \* the example table of the 2-shot notebook
    pc,          \* the cell / loop position the kernel is at
    q,           \* loop variable
    prompt,      \* notebook variable prompt
    response,    \* notebook variable response (its content)
    answers,     \* notebook variable answers
    attempts,    \* attempts the client has made for the call in progress
    calls,       \* model invocations of the current run of the loop cell, in order
    misses,      \* responses of this run that differ from the row's letter
    sleeps,      \* time.sleep(1) calls of the current run
    error,       \* "none" or the exception that ended the cell
    real_answers,\* notebook variable real_answers
    cont,        \* notebook variable cont (NoCount before the grade cell ran)
    stdout,      \* what the grade cell printed
    llm,         \* notebook variable llm: the client's configuration, or Undefined
    test_call,   \* the invocation the configuration cell makes, or NoCall
    events,      \* what the current run of the loop cell did, in order
    \* ---- metric notebooks (SpecMetric)
    nb,          \* which metric notebook runs
    mpc,         \* the cell / statement the kernel is at
    round,       \* which evaluation cell of the notebook (toxicity has two)
    answer,      \* notebook variable answer
    metric,      \* notebook variable metric: the metric instance, or Undefined
    test_case,   \* notebook variable test_case, or Undefined
    made,        \* metric instances and test cases constructed so far
    chat_calls,  \* calls of the local model made by the chat cells
    judge_calls, \* calls of the judge model made by measure
    shown,       \* what the evaluation cells displayed
    merror       \* "none" or the exception that ended the cell

fvars == <<rows, fop, farg, fout, ferr>>
pvars == <<shots, fs_test, df_test, df_val, pc, q, prompt, response, answers,
           attempts, calls, misses, sleeps, error, real_answers, cont, stdout,
           llm, test_call, events>>
mvars == <<nb, mpc, round, answer, metric, test_case, made, chat_calls, judge_calls,
           shown, merror>>
vars == <<rows, fop, farg, fout, ferr, api_key, shots, fs_test, df_test, df_val,
          pc, q, prompt, response, answers, attempts, calls, misses, sleeps,
          error, real_answers, cont, stdout, llm, test_call, events, nb, mpc,
          round, answer, metric, test_case, made, chat_calls, judge_calls,
          shown, merror>>

(***************************************************************************)
(* Bounds of the model.                                                    *)
(***************************************************************************)
\* Longest table drawn for the formatter harness.
MaxRows == 2
\* Responses per loop run that may differ from the row's letter.
MaxMisses == 1

(***************************************************************************)
(* String helpers (Python str operations used to state the properties).    *)
(***************************************************************************)
NoText == "<no text>"
NoCount == 0 - 1

\* text[i : i + len(m)] == m, 1-based
OccursAt(text, m, i) ==
    /\ i >= 1
    /\ i + Len(m) - 1 <= Len(text)
    /\ SubSeq(text, i, i + Len(m) - 1) = m

\* the start positions of m in text
Occurrences(text, m) == {i \in 1..Len(text) : OccursAt(text, m, i)}

\* text.count(m) for a marker that cannot overlap itself
CountOcc(text, m) == Cardinality(Occurrences(text, m))

StartsWith(text, m) == OccursAt(text, m, 1)
EndsWith(text, m) == OccursAt(text, m, Len(text) - Len(m) + 1)

SetMax(S) == CHOOSE x \in S : \A y \in S : y <= x
SetMin(S) == CHOOSE x \in S : \A y \in S : x <= y

\* what follows the last occurrence of m in text (text itself when m is absent)
AfterLast(text, m) ==
    IF Occurrences(text, m) = {} THEN text
    ELSE SubSeq(text, SetMax(Occurrences(text, m)) + Len(m), Len(text))

\* what follows the occurrence of m at position i, up to the next occurrence of stop
\* (or the end of the text)
Following(text, m, i, stop) ==
    LET from == i + Len(m)
        nxt == {j \in Occurrences(text, stop) : j >= from}
    IN IF nxt = {} THEN SubSeq(text, from, Len(text))
       ELSE SubSeq(text, from, SetMin(nxt) - 1)

\* text.lstrip(" \n") and text.strip(" \n")
RECURSIVE LStrip(_)
LStrip(text) ==
    IF Len(text) > 0 /\ SubSeq(text, 1, 1) \in {" ", "\n"}
    THEN LStrip(SubSeq(text, 2, Len(text)))
    ELSE text

RECURSIVE RStrip(_)
RStrip(text) ==
    IF Len(text) > 0 /\ SubSeq(text, Len(text), Len(text)) \in {" ", "\n"}
    THEN RStrip(SubSeq(text, 1, Len(text) - 1))
    ELSE text

Strip(text) == RStrip(LStrip(text))

(***************************************************************************)
(* The prompt formatter (reuse module), as the displayed prompts show it.  *)
(* A table is a sequence of rows, a row the 6-tuple of a line's fields;    *)
(* pandas positions are 0-based, so df.iloc[idx, c] is df[idx + 1][c + 1]. *)
(***************************************************************************)
choices == <<"A", "B", "C", "D">>

iloc(df, idx, c) == df[idx + 1][c + 1]

shape0(df) == Len(df)

\* The sentence every rendered question starts with.
INSTRUCTION ==
    "Follow the answer instructions strictly, and answer only with the letter corresponding to the correct answer: "

\* the literal marker of the answer line
MARKER == "Answer:"

ANSWER_MARK == "\n - " \o MARKER

\* the choice lines "\nA. <choice>" ... "\nD. <choice>" of row idx, from choice j on
RECURSIVE choice_lines(_, _, _)
choice_lines(df, idx, j) ==
    IF j > Len(choices) THEN ""
    ELSE "\n" \o choices[j] \o ". " \o iloc(df, idx, j) \o choice_lines(df, idx, j + 1)

\* format_example with the instruction sentence left out (a mutant of it)
format_example_no_instruction(df, idx, include_answer) ==
    LET body == iloc(df, idx, 0) \o choice_lines(df, idx, 1) \o ANSWER_MARK
    IN IF include_answer THEN body \o " " \o iloc(df, idx, 5) \o "\n\n" ELSE body

\* format_example that appends the letter whatever include_answer says (a mutant of it)
format_example_always_answer(df, idx, include_answer) ==
    INSTRUCTION \o iloc(df, idx, 0) \o choice_lines(df, idx, 1) \o ANSWER_MARK
        \o " " \o iloc(df, idx, 5) \o "\n\n"

\* format_example(df, idx, include_answer)
format_example(df, idx, include_answer) ==
    LET body == INSTRUCTION \o iloc(df, idx, 0) \o choice_lines(df, idx, 1) \o ANSWER_MARK
    IN IF include_answer THEN body \o " " \o iloc(df, idx, 5) \o "\n\n" ELSE body

\* format_subject: the topic as the header names it (a leading blank, which gives
\* the two blanks of "about  anatomy.")
format_subject(subject) == " " \o subject

header(subject) ==
    "The following are multiple choice questions (with answers) about "
        \o format_subject(subject) \o ".\n\n"

\* the examples i .. k-1 of train_df, each with its answer, concatenated
RECURSIVE shot_examples(_, _, _)
shot_examples(train_df, i, k) ==
    IF i >= k THEN ""
    ELSE format_example(train_df, i, TRUE) \o shot_examples(train_df, i + 1, k)

\* the examples k-1 .. 0 of train_df, last row first
RECURSIVE shot_examples_descending(_, _)
shot_examples_descending(train_df, k) ==
    IF k <= 0 THEN ""
    ELSE format_example(train_df, k - 1, TRUE) \o shot_examples_descending(train_df, k - 1)

\* gen_prompt that emits its examples last row first (a mutant of it)
gen_prompt_descending(train_df, subject, k) ==
    header(subject) \o shot_examples_descending(train_df, k)

\* gen_prompt that emits every row whatever k says (a mutant of it)
gen_prompt_all_rows(train_df, subject, k) ==
    header(subject) \o shot_examples(train_df, 0, shape0(train_df))

\* gen_prompt(train_df, subject, k)
gen_prompt(train_df, subject, k) ==
    header(subject) \o shot_examples(train_df, 0, k)

\* df.iloc[idx] exists: a positional index past the last row raises
row_in_range(df, idx) == idx < shape0(df)

\* gen_prompt raises when one of the rows 0..k-1 it formats does not exist
gen_prompt_raises(train_df, k) == \E i \in 0..(k - 1) : ~row_in_range(train_df, i)

\* a call of gen_prompt that emits the rows there are when k asks for more
\* (a mutant of gen_prompt_call)
gen_prompt_call_truncating(train_df, subject, k) ==
    IF gen_prompt_raises(train_df, k)
    THEN [text |-> gen_prompt(train_df, subject, shape0(train_df)), err |-> "none"]
    ELSE [text |-> gen_prompt(train_df, subject, k), err |-> "none"]

\* the outcome of a call gen_prompt(train_df, subject, k): its text, or the error
gen_prompt_call(train_df, subject, k) ==
    IF gen_prompt_raises(train_df, k)
    THEN [text |-> NoText, err |-> "OutOfRangeError"]
    ELSE [text |-> gen_prompt(train_df, subject, k), err |-> "none"]

(***************************************************************************)
(* Formatter harness: the two functions applied to drawn tables.           *)
(***************************************************************************)
Questions == {"Q1", "Q2"}
Letters == {"A", "B", "C", "D"}
Topics == {"anatomy", "virology"}

RowValues == {<<qu, "A1", "A2", "A3", "A4", l>> : qu \in Questions, l \in Letters}

Tables == UNION {[1..n -> RowValues] : n \in 1..MaxRows}

NoArg == [idx |-> 0, inc |-> FALSE, topic |-> "", k |-> 0]

None == "<None>"
KeyValues == {None, "sk-key"}

\* a name the kernel has not bound: llm before the configuration cell succeeded
Undefined ==
    [model |-> "<undefined>", temperature |-> NoCount, max_tokens |-> NoCount,
     max_retries |-> NoCount]

\* metric and test_case before an evaluation cell bound them
NoMetric == [id |-> 0, kind |-> "<undefined>", model |-> "<undefined>",
             measured |-> FALSE, case |-> 0, score |-> None, reason |-> None]
NoTestCase == [id |-> 0, input |-> NoText, actual_output |-> NoText]

PipelineOff ==
    /\ shots = 0
    /\ fs_test = "off"
    /\ df_test = <<>>
    /\ df_val = <<>>
    /\ pc = "off"
    /\ q = 0
    /\ prompt = NoText
    /\ response = NoText
    /\ answers = <<>>
    /\ attempts = 0
    /\ calls = <<>>
    /\ misses = 0
    /\ sleeps = 0
    /\ error = "none"
    /\ real_answers = <<>>
    /\ cont = NoCount
    /\ stdout = NoText
    /\ llm = Undefined
    /\ test_call = <<>>
    /\ events = <<>>

\* no metric notebook runs
MetricOff ==
    /\ nb = "off"
    /\ mpc = "off"
    /\ round = 0
    /\ answer = NoText
    /\ metric = NoMetric
    /\ test_case = NoTestCase
    /\ made = [metrics |-> 0, cases |-> 0]
    /\ chat_calls = <<>>
    /\ judge_calls = <<>>
    /\ shown = <<>>
    /\ merror = "none"

InitFmt ==
    /\ rows \in Tables
    /\ fop = "none"
    /\ farg = NoArg
    /\ fout = NoText
    /\ ferr = "none"
    /\ api_key = None
    /\ PipelineOff
    /\ MetricOff

\* format_example(rows, idx, include_answer) on a row of the table
FmtFormatExample ==
    \E idx \in 0..(shape0(rows) - 1), inc \in BOOLEAN :
        /\ fop' = "format_example"
        /\ farg' = [NoArg EXCEPT !.idx = idx, !.inc = inc]
        /\ fout' = format_example(rows, idx, inc)
        /\ ferr' = "none"
        /\ UNCHANGED <<rows, api_key, pvars, mvars>>

\* gen_prompt(rows, topic, k), k up to one more than the table holds
FmtGenPrompt ==
    \E topic \in Topics, k \in 0..(shape0(rows) + 1) :
        /\ fop' = "gen_prompt"
        /\ farg' = [NoArg EXCEPT !.topic = topic, !.k = k]
        /\ fout' = gen_prompt_call(rows, topic, k).text
        /\ ferr' = gen_prompt_call(rows, topic, k).err
        /\ UNCHANGED <<rows, api_key, pvars, mvars>>

\* the test cell: prompt_end = format_example(df, idx, include_answer=False);
\* train_prompt = gen_prompt(df, topic, k); prompt = train_prompt + prompt_end
FmtPrompt ==
    \E topic \in Topics, k \in 0..shape0(rows), idx \in 0..(shape0(rows) - 1) :
        /\ fop' = "prompt"
        /\ farg' = [idx |-> idx, inc |-> FALSE, topic |-> topic, k |-> k]
        /\ fout' = gen_prompt(rows, topic, k) \o format_example(rows, idx, FALSE)
        /\ ferr' = "none"
        /\ UNCHANGED <<rows, api_key, pvars, mvars>>

NextFmt == FmtFormatExample \/ FmtGenPrompt \/ FmtPrompt

SpecFmt == InitFmt /\ [][NextFmt]_vars

(***************************************************************************)
(* The notebooks: data on disk, the cells, the evaluation loop.            *)
(***************************************************************************)
\* rows of anatomy_test.csv and anatomy_val.csv (the shapes the notebooks print)
TestRows == 135
ValRows == 14

\* for q in range(35, 55)
RangeStart == 35
RangeStop == 55
\* df.loc[35:55, last_col]
LocFirst == 35
LocLast == 55
\* print(f"Grade: {cont} in 20")
GradeTotal == 20
\* ChatOpenAI(model="gpt-4o-mini", temperature=0, max_tokens=1, max_retries=2)
temperature == 0
max_tokens == 1
max_retries == 2
\* time.sleep(1)
SleepSeconds == 1

\* the letters df_test.head(5) and df_val.head(5) show
ShownHeadLetters == <<"A", "B", "A", "C", "B">>
ShownValLetters == <<"D", "B", "C", "C", "B">>

\* the letters the notebooks show for rows 35..44 of the test file
ShownLetters == <<"C", "D", "C", "D", "C", "C", "C", "B", "C", "A">>

\* the last column of row i (0-based) of the test file on disk
TestLetter(fs, i) ==
    IF fs = "bad_letter" /\ i = 40 THEN "X"
    ELSE IF i >= 35 /\ i <= 44 THEN ShownLetters[i - 34]
    ELSE IF i <= 4 THEN ShownHeadLetters[i + 1]
    ELSE choices[(i % 4) + 1]

\* the lines of a test file: question, four choices, letter
TestLines(fs) ==
    [i \in 1..TestRows |->
        <<"T" \o ToString(i - 1), "a", "b", "c", "d", TestLetter(fs, i - 1)>>]

CleanTestFile == TestLines("clean")
BadLetterTestFile == TestLines("bad_letter")

\* the lines of the anatomy_test.csv that is on disk
TestFile(fs) == IF fs = "bad_letter" THEN BadLetterTestFile ELSE CleanTestFile

\* the lines of anatomy_val.csv
ValFile ==
    [i \in 1..ValRows |->
        <<"V" \o ToString(i - 1), "e", "f", "g", "h",
          IF i <= 5 THEN ShownValLetters[i] ELSE choices[(i % 4) + 1]>>]

\* a loader that rejects a file with a last column outside A..D (a mutant of read_csv)
read_csv_validating(file) ==
    IF \A i \in DOMAIN file : Len(file[i]) = 6 /\ file[i][6] \in Letters
    THEN [df |-> file, err |-> "none"]
    ELSE [df |-> <<>>, err |-> "DataFormatError"]

\* pd.read_csv(path, header=None): every line is a data row, in file order,
\* fields as they are; nothing is checked
read_csv(file) == [df |-> file, err |-> "none"]

\* the table gen_prompt is given: df itself (0-shot), df_val (2-shot)
ExampleTable == IF shots = 0 THEN df_test ELSE df_val

\* the loop building its prompt from the row after q (a mutant of loop_prompt)
loop_prompt_next_row(qq) ==
    gen_prompt(ExampleTable, "anatomy", shots) \o format_example(df_test, qq + 1, FALSE)

\* the loop rendering its target row with the answer (a mutant of loop_prompt)
loop_prompt_answered(qq) ==
    gen_prompt(ExampleTable, "anatomy", shots) \o format_example(df_test, qq, TRUE)

\* prompt_end = format_example(df, q, include_answer=False)
\* train_prompt = gen_prompt(df, 'anatomy', shots); prompt = train_prompt + prompt_end
loop_prompt(qq) ==
    gen_prompt(ExampleTable, "anatomy", shots) \o format_example(df_test, qq, FALSE)

\* what the model may answer for row qq: the row's letter, or (while the run's
\* budget of other answers lasts) another token
Responses(qq) ==
    {iloc(df_test, qq, 5)} \cup (IF misses < MaxMisses THEN {"A", "X"} ELSE {})

Pending == "<pending>"
Failed == "<error>"

\* os.getenv("OPENAI_API_KEY"): the variable's value, None when it is not set
getenv == api_key

\* os.environ[name] = value raises TypeError (str expected) for a value that is
\* no string
environ_set_raises(value) == value = None

\* a client built whatever the environment holds (a mutant of openai_client_raises)
openai_client_raises_never == FALSE

\* the OpenAI client cannot be built without a key: ChatOpenAI(...) raises
openai_client_raises == getenv = None

\* a client left at its defaults: sampling temperature, no token limit (a mutant
\* of ChatOpenAI)
ChatOpenAI_defaults(m, t, mt, mr) ==
    [model |-> m, temperature |-> 1, max_tokens |-> NoCount, max_retries |-> mr]

\* ChatOpenAI(model=..., temperature=..., max_tokens=..., max_retries=...)
ChatOpenAI(m, t, mt, mr) ==
    [model |-> m, temperature |-> t, max_tokens |-> mt, max_retries |-> mr]

\* an event of the loop cell
Event(e, qq, secs) == [ev |-> e, q |-> qq, secs |-> secs]

Init ==
    /\ rows = <<>>
    /\ fop = "none"
    /\ farg = NoArg
    /\ fout = NoText
    /\ ferr = "none"
    /\ api_key \in KeyValues
    /\ shots \in {0, 2}
    /\ fs_test \in {"clean", "bad_letter"}
    /\ df_test = <<>>
    /\ df_val = <<>>
    /\ pc = "setup"
    /\ q = 0
    /\ prompt = NoText
    /\ response = NoText
    /\ answers = <<>>
    /\ attempts = 0
    /\ calls = <<>>
    /\ misses = 0
    /\ sleeps = 0
    /\ error = "none"
    /\ real_answers = <<>>
    /\ cont = NoCount
    /\ stdout = NoText
    /\ llm = Undefined
    /\ test_call = <<>>
    /\ events = <<>>
    /\ MetricOff

\* the setup cell: load_dotenv(...); os.environ["OPENAI_API_KEY"] =
\* os.getenv("OPENAI_API_KEY").  The assignment raises when the key is not set;
\* the kernel stays usable and the next cells can still be run.
SetupCell ==
    /\ pc = "setup"
    /\ error' = IF environ_set_raises(getenv) THEN "ConfigurationError" ELSE error
    /\ pc' = "load"
    /\ UNCHANGED <<fvars, mvars, api_key, llm, test_call, shots, fs_test, df_test,
                   df_val, q, prompt, response, answers, attempts, calls, misses,
                   sleeps, real_answers, cont, stdout, events>>

\* the read cells: df = pd.read_csv(anatomy_test.csv); the 2-shot notebook reads
\* df_val first
LoadData ==
    /\ pc = "load"
    /\ LET t == read_csv(TestFile(fs_test))
           v == read_csv(ValFile)
       IN IF t.err # "none"
          THEN /\ error' = t.err
               /\ pc' = "load_failed"
               /\ UNCHANGED <<df_test, df_val>>
          ELSE /\ df_test' = t.df
               /\ df_val' = IF shots = 2 THEN v.df ELSE <<>>
               /\ pc' = "test"
               /\ UNCHANGED error
    /\ UNCHANGED <<fvars, mvars, api_key, llm, test_call, shots, fs_test, q, prompt,
                   response, answers, attempts, calls, misses, sleeps, real_answers,
                   cont, stdout, events>>

\* the test cell: the prompt of row 0 is built and displayed
TestCell ==
    /\ pc = "test"
    /\ prompt' = loop_prompt(0)
    /\ pc' = "config"
    /\ UNCHANGED <<fvars, mvars, api_key, llm, test_call, shots, fs_test, df_test,
                   df_val, q, response, answers, attempts, calls, misses, sleeps,
                   error, real_answers, cont, stdout, events>>

\* what the model may answer in the configuration cell, or Failed
TestResponses == {iloc(df_test, 0, 5), "X", Failed}

\* the configuration cell: llm = ChatOpenAI(...); response = llm.invoke(messages)
\* with the prompt of the test cell; print(response.content)
ConfigCell ==
    /\ pc = "config"
    /\ IF openai_client_raises
       THEN /\ error' = "ConfigurationError"
            /\ UNCHANGED <<llm, test_call, response>>
       ELSE /\ llm' = ChatOpenAI("gpt-4o-mini", temperature, max_tokens, max_retries)
            /\ test_call' = <<[prompt |-> prompt, temperature |-> llm'.temperature,
                               max_tokens |-> llm'.max_tokens]>>
            /\ \E r \in TestResponses :
                  /\ response' = IF r = Failed THEN response ELSE r
                  /\ error' = IF r = Failed THEN "ExternalCallError" ELSE error
    /\ pc' = "ready"
    /\ UNCHANGED <<fvars, mvars, api_key, shots, fs_test, df_test, df_val, q, prompt,
                   answers, attempts, calls, misses, sleeps, real_answers, cont,
                   stdout, events>>

\* a loop cell that goes on with the answers it finds (a mutant of StartLoop)
StartLoop_keeps_answers ==
    /\ pc \in {"ready", "loop_end"}
    /\ q' = RangeStart
    /\ calls' = <<>>
    /\ misses' = 0
    /\ sleeps' = 0
    /\ events' = <<>>
    /\ error' = "none"
    /\ pc' = IF RangeStart < RangeStop THEN "build" ELSE "loop_end"
    /\ UNCHANGED <<fvars, mvars, api_key, llm, test_call, shots, fs_test, df_test,
                   df_val, prompt, response, answers, attempts, real_answers, cont,
                   stdout>>

\* the loop cell starts (first run, or run again after it ended): answers = []
StartLoop ==
    /\ pc \in {"ready", "loop_end"}
    /\ answers' = <<>>
    /\ q' = RangeStart
    /\ calls' = <<>>
    /\ misses' = 0
    /\ sleeps' = 0
    /\ events' = <<>>
    /\ error' = "none"
    /\ pc' = IF RangeStart < RangeStop THEN "build" ELSE "loop_end"
    /\ UNCHANGED <<fvars, mvars, api_key, llm, test_call, shots, fs_test, df_test,
                   df_val, prompt, response, attempts, real_answers, cont, stdout>>

\* a loop that sends what it received so far along with the question (a mutant
\* of BuildPrompt)
BuildPrompt_with_history ==
    /\ pc = "build"
    /\ prompt' = (IF answers = <<>> THEN "" ELSE answers[Len(answers)] \o "\n\n")
                     \o loop_prompt(q)
    /\ events' = Append(events, Event("build", q, 0))
    /\ pc' = "call"
    /\ UNCHANGED <<fvars, mvars, api_key, llm, test_call, shots, fs_test, df_test,
                   df_val, q, response, answers, attempts, calls, misses, sleeps,
                   error, real_answers, cont, stdout>>

\* prompt = train_prompt + prompt_end; messages = [HumanMessage(content=prompt)]
BuildPrompt ==
    /\ pc = "build"
    /\ prompt' = loop_prompt(q)
    /\ events' = Append(events, Event("build", q, 0))
    /\ pc' = "call"
    /\ UNCHANGED <<fvars, mvars, api_key, llm, test_call, shots, fs_test, df_test,
                   df_val, q, response, answers, attempts, calls, misses, sleeps,
                   error, real_answers, cont, stdout>>

\* a client whose invoke returns at once, the response arriving later (a mutant
\* of IssueCall)
IssueCall_no_wait ==
    /\ pc = "call"
    /\ llm # Undefined
    /\ calls' = Append(calls, [q |-> q, prompt |-> prompt, result |-> Pending,
                               temperature |-> llm.temperature,
                               max_tokens |-> llm.max_tokens])
    /\ attempts' = 0
    /\ events' = Append(events, Event("invoke", q, 0))
    /\ response' = Pending
    /\ pc' = "append"
    /\ UNCHANGED <<fvars, mvars, api_key, llm, test_call, shots, fs_test, df_test,
                   df_val, q, prompt, answers, misses, sleeps, error, real_answers,
                   cont, stdout>>

\* llm.invoke(messages) is entered: the call is outstanding.  With llm unbound the
\* statement raises NameError and the cell ends.
IssueCall ==
    /\ pc = "call"
    /\ IF llm = Undefined
       THEN /\ error' = "NameError"
            /\ pc' = "loop_end"
            /\ UNCHANGED <<calls, attempts, events>>
       ELSE /\ calls' = Append(calls, [q |-> q, prompt |-> prompt, result |-> Pending,
                                       temperature |-> llm.temperature,
                                       max_tokens |-> llm.max_tokens])
            /\ attempts' = 0
            /\ events' = Append(events, Event("invoke", q, 0))
            /\ pc' = "wait"
            /\ UNCHANGED error
    /\ UNCHANGED <<fvars, mvars, api_key, llm, test_call, shots, fs_test, df_test,
                   df_val, q, prompt, response, answers, misses, sleeps,
                   real_answers, cont, stdout>>

\* a client that tries a failed call once more than max_retries allows (a mutant
\* of RetryCall)
RetryCall_once_more ==
    /\ pc = "wait"
    /\ attempts < llm.max_retries + 1
    /\ attempts' = attempts + 1
    /\ UNCHANGED <<fvars, mvars, api_key, llm, test_call, shots, fs_test, df_test,
                   df_val, pc, q, prompt, response, answers, calls, misses, sleeps,
                   error, real_answers, cont, stdout, events>>

\* an attempt fails and the client tries again (max_retries)
RetryCall ==
    /\ pc = "wait"
    /\ attempts < llm.max_retries
    /\ attempts' = attempts + 1
    /\ UNCHANGED <<fvars, mvars, api_key, llm, test_call, shots, fs_test, df_test,
                   df_val, pc, q, prompt, response, answers, calls, misses, sleeps,
                   error, real_answers, cont, stdout, events>>

\* llm.invoke returns: response = the message received
ReturnCall ==
    /\ pc = "wait"
    /\ \E r \in Responses(q) :
        /\ response' = r
        /\ calls' = [calls EXCEPT ![Len(calls)].result = r]
        /\ misses' = IF r = iloc(df_test, q, 5) THEN misses ELSE misses + 1
    /\ events' = Append(events, Event("return", q, 0))
    /\ pc' = "append"
    /\ UNCHANGED <<fvars, mvars, api_key, llm, test_call, shots, fs_test, df_test,
                   df_val, q, prompt, answers, attempts, sleeps, error, real_answers,
                   cont, stdout>>

\* a failed call that the loop swallows, going on with the next row (a mutant
\* of FailCall)
FailCall_swallowed ==
    /\ pc = "wait"
    /\ attempts = llm.max_retries
    /\ calls' = [calls EXCEPT ![Len(calls)].result = Failed]
    /\ events' = Append(events, Event("raise", q, 0))
    /\ pc' = "sleep"
    /\ UNCHANGED <<fvars, mvars, api_key, llm, test_call, shots, fs_test, df_test,
                   df_val, q, prompt, response, answers, attempts, misses, sleeps,
                   error, real_answers, cont, stdout>>

\* the last attempt fails: llm.invoke raises, nothing catches it, the cell ends
FailCall ==
    /\ pc = "wait"
    /\ attempts = llm.max_retries
    /\ calls' = [calls EXCEPT ![Len(calls)].result = Failed]
    /\ events' = Append(events, Event("raise", q, 0))
    /\ error' = "ExternalCallError"
    /\ pc' = "loop_end"
    /\ UNCHANGED <<fvars, mvars, api_key, llm, test_call, shots, fs_test, df_test,
                   df_val, q, prompt, response, answers, attempts, misses, sleeps,
                   real_answers, cont, stdout>>

\* an append that drops a response that is no letter (a mutant of AppendAnswer)
AppendAnswer_letters_only ==
    /\ pc = "append"
    /\ answers' = IF response \in Letters THEN Append(answers, response) ELSE answers
    /\ events' = Append(events, Event("append", q, 0))
    /\ pc' = "sleep"
    /\ UNCHANGED <<fvars, mvars, api_key, llm, test_call, shots, fs_test, df_test,
                   df_val, q, prompt, response, attempts, calls, misses, sleeps,
                   error, real_answers, cont, stdout>>

\* an append that also writes the prediction into the row's last column (a mutant
\* of AppendAnswer)
AppendAnswer_writes_table ==
    /\ pc = "append"
    /\ answers' = Append(answers, response)
    /\ df_test' = [df_test EXCEPT ![q + 1][6] = response]
    /\ events' = Append(events, Event("append", q, 0))
    /\ pc' = "sleep"
    /\ UNCHANGED <<fvars, mvars, api_key, llm, test_call, shots, fs_test, df_val, q,
                   prompt, response, attempts, calls, misses, sleeps, error,
                   real_answers, cont, stdout>>

\* answers.append(response.content)
AppendAnswer ==
    /\ pc = "append"
    /\ answers' = Append(answers, response)
    /\ events' = Append(events, Event("append", q, 0))
    /\ pc' = "sleep"
    /\ UNCHANGED <<fvars, mvars, api_key, llm, test_call, shots, fs_test, df_test,
                   df_val, q, prompt, response, attempts, calls, misses, sleeps,
                   error, real_answers, cont, stdout>>

\* a loop that pauses only after a response that is no letter (a mutant of
\* SleepAndAdvance)
SleepAndAdvance_backoff_only ==
    /\ pc = "sleep"
    /\ sleeps' = IF response \in Letters THEN sleeps ELSE sleeps + 1
    /\ events' = IF response \in Letters THEN events
                 ELSE Append(events, Event("sleep", q, SleepSeconds))
    /\ q' = q + 1
    /\ pc' = IF q + 1 < RangeStop THEN "build" ELSE "loop_end"
    /\ UNCHANGED <<fvars, mvars, api_key, llm, test_call, shots, fs_test, df_test,
                   df_val, prompt, response, answers, attempts, calls, misses, error,
                   real_answers, cont, stdout>>

\* a loop that does not pause after its last question (a mutant of
\* SleepAndAdvance)
SleepAndAdvance_not_after_last ==
    /\ pc = "sleep"
    /\ sleeps' = IF q + 1 < RangeStop THEN sleeps + 1 ELSE sleeps
    /\ events' = IF q + 1 < RangeStop
                 THEN Append(events, Event("sleep", q, SleepSeconds)) ELSE events
    /\ q' = q + 1
    /\ pc' = IF q + 1 < RangeStop THEN "build" ELSE "loop_end"
    /\ UNCHANGED <<fvars, mvars, api_key, llm, test_call, shots, fs_test, df_test,
                   df_val, prompt, response, answers, attempts, calls, misses, error,
                   real_answers, cont, stdout>>

\* a loop that ends at the first response that is no letter (a mutant of
\* SleepAndAdvance)
SleepAndAdvance_stop_at_invalid ==
    /\ pc = "sleep"
    /\ sleeps' = sleeps + 1
    /\ events' = Append(events, Event("sleep", q, SleepSeconds))
    /\ q' = q + 1
    /\ pc' = IF q + 1 < RangeStop /\ response \in Letters THEN "build" ELSE "loop_end"
    /\ UNCHANGED <<fvars, mvars, api_key, llm, test_call, shots, fs_test, df_test,
                   df_val, prompt, response, answers, attempts, calls, misses, error,
                   real_answers, cont, stdout>>

\* time.sleep(1), then the for statement takes the next q or ends the cell
SleepAndAdvance ==
    /\ pc = "sleep"
    /\ sleeps' = sleeps + 1
    /\ events' = Append(events, Event("sleep", q, SleepSeconds))
    /\ q' = q + 1
    /\ pc' = IF q + 1 < RangeStop THEN "build" ELSE "loop_end"
    /\ UNCHANGED <<fvars, mvars, api_key, llm, test_call, shots, fs_test, df_test,
                   df_val, prompt, response, answers, attempts, calls, misses, error,
                   real_answers, cont, stdout>>

\* a slice that leaves the row labelled last out, as a positional slice would (a
\* mutant of loc_slice)
loc_slice_exclusive(df, first, last) ==
    [i \in 1..((IF last < shape0(df) THEN last ELSE shape0(df)) - first) |->
        iloc(df, first + i - 1, 5)]

\* df.loc[first:last, last_col].tolist(): label slice, both ends included, cut at
\* the table's last row
loc_slice(df, first, last) ==
    [i \in 1..((IF last < shape0(df) THEN last ELSE shape0(df) - 1) - first + 1) |->
        iloc(df, first + i - 1, 5)]

\* real_answers = df.loc[35:55, last_col].tolist()
RealAnswersCell ==
    /\ pc = "loop_end"
    /\ real_answers' = loc_slice(df_test, LocFirst, LocLast)
    /\ pc' = "real"
    /\ UNCHANGED <<fvars, mvars, api_key, llm, test_call, shots, fs_test, df_test,
                   df_val, q, prompt, response, answers, attempts, calls, misses,
                   sleeps, error, cont, stdout, events>>

ZipLen(xs, ys) == IF Len(xs) < Len(ys) THEN Len(xs) ELSE Len(ys)

\* a count that takes any letter for a match (a mutant of grade_count)
grade_count_any_letter(xs, ys) ==
    Cardinality({i \in 1..ZipLen(xs, ys) : xs[i] \in Letters})

\* a count that stops at the first prediction that is no letter (a mutant of
\* grade_count)
grade_count_until_invalid(xs, ys) ==
    Cardinality({i \in 1..ZipLen(xs, ys) :
                    xs[i] = ys[i] /\ \A j \in 1..i : xs[j] \in Letters})

\* sum(1 for x, y in zip(answers, real_answers) if x == y)
grade_count(xs, ys) == Cardinality({i \in 1..ZipLen(xs, ys) : xs[i] = ys[i]})

\* a grade cell that adds to the count it finds (a mutant of GradeCell)
GradeCell_accumulating ==
    /\ pc \in {"real", "graded"}
    /\ cont' = (IF cont = NoCount THEN 0 ELSE cont) + grade_count(answers, real_answers)
    /\ stdout' = "Grade: " \o ToString(cont') \o " in " \o ToString(GradeTotal)
    /\ pc' = "graded"
    /\ UNCHANGED <<fvars, mvars, api_key, llm, test_call, shots, fs_test, df_test,
                   df_val, q, prompt, response, answers, attempts, calls, misses,
                   sleeps, error, real_answers, events>>

\* a grade cell that reports the count against the answers collected (a mutant of
\* GradeCell)
GradeCell_reports_collected ==
    /\ pc \in {"real", "graded"}
    /\ cont' = grade_count(answers, real_answers)
    /\ stdout' = "Grade: " \o ToString(grade_count(answers, real_answers))
                     \o " in " \o ToString(Len(answers))
    /\ pc' = "graded"
    /\ UNCHANGED <<fvars, mvars, api_key, llm, test_call, shots, fs_test, df_test,
                   df_val, q, prompt, response, answers, attempts, calls, misses,
                   sleeps, error, real_answers, events>>

\* cont = sum(...); print(f"Grade: {cont} in 20"); the cell can be run again
GradeCell ==
    /\ pc \in {"real", "graded"}
    /\ cont' = grade_count(answers, real_answers)
    /\ stdout' = "Grade: " \o ToString(grade_count(answers, real_answers))
                     \o " in " \o ToString(GradeTotal)
    /\ pc' = "graded"
    /\ UNCHANGED <<fvars, mvars, api_key, llm, test_call, shots, fs_test, df_test,
                   df_val, q, prompt, response, answers, attempts, calls, misses,
                   sleeps, error, real_answers, events>>

Next ==
    \/ SetupCell
    \/ LoadData
    \/ TestCell
    \/ ConfigCell
    \/ StartLoop
    \/ BuildPrompt
    \/ IssueCall
    \/ RetryCall
    \/ ReturnCall
    \/ FailCall
    \/ AppendAnswer
    \/ SleepAndAdvance
    \/ RealAnswersCell
    \/ GradeCell

Spec == Init /\ [][Next]_vars

\* The kernel goes on with the statement of the loop cell it is at, and a call in
\* flight eventually returns (unless it raises first); whether a cell is started
\* at all is up to the user.
LoopFairness ==
    /\ WF_vars(BuildPrompt)
    /\ WF_vars(IssueCall)
    /\ WF_vars(ReturnCall)
    /\ WF_vars(AppendAnswer)
    /\ WF_vars(SleepAndAdvance)

SpecLive == Init /\ [][Next]_vars /\ LoopFairness

(***************************************************************************)
(* The metric notebooks (toxicity, faithfulness, contextual precision): a  *)
(* local model answers a question, a deepeval metric judged by gpt-4o-mini *)
(* scores the answer, the score and the reason are displayed.              *)
(***************************************************************************)
MetricNotebooks == {"toxicity", "faithfulness", "contextual_precision"}

\* evaluation cells of the notebook: toxicity evaluates a second, rude answer
Rounds(n) == IF n = "toxicity" THEN 2 ELSE 1

\* the metric class the notebook constructs
MetricKind(n) ==
    IF n = "toxicity" THEN "ToxicityMetric"
    ELSE IF n = "faithfulness" THEN "FaithfulnessMetric"
    ELSE "ContextualPrecisionMetric"

\* notebook variable prompt
Question(n) ==
    IF n = "toxicity"
    THEN "\nList 3 of the main achievements of scientist Albert Einstein.\n"
    ELSE IF n = "faithfulness" THEN "\nWho was Albert Einstein and what did he do?"
    ELSE "\nIn what year was the German scientist Albert Einstein born?\n"

\* what the local model may answer
Answers == {"<polite answer>", "<rude answer>"}

\* scores a measure may give, as displayed
Scores == {"0", "0.5", "1.0"}

ReasonOf(sc) == "The score is " \o sc \o " because ..."

InitMetric ==
    /\ rows = <<>>
    /\ fop = "none"
    /\ farg = NoArg
    /\ fout = NoText
    /\ ferr = "none"
    /\ api_key \in KeyValues
    /\ PipelineOff
    /\ nb \in MetricNotebooks
    /\ mpc = "setup"
    /\ round = 0
    /\ answer = NoText
    /\ metric = NoMetric
    /\ test_case = NoTestCase
    /\ made = [metrics |-> 0, cases |-> 0]
    /\ chat_calls = <<>>
    /\ judge_calls = <<>>
    /\ shown = <<>>
    /\ merror = "none"

\* where the kernel is after an evaluation cell ended
AfterCell == IF round < Rounds(nb) THEN "chat" ELSE "done"

\* the setup cell: os.environ["OPENAI_API_KEY"] = os.getenv("OPENAI_API_KEY");
\* model_eval = ChatOpenAI(model="gpt-4o-mini").  The assignment raises when the
\* key is not set; the next cells can still be run.
MetricSetupCell ==
    /\ mpc = "setup"
    /\ merror' = IF environ_set_raises(getenv) THEN "ConfigurationError" ELSE merror
    /\ mpc' = "chat"
    /\ UNCHANGED <<fvars, api_key, pvars, nb, round, answer, metric, test_case, made,
                   chat_calls, judge_calls, shown>>

\* what a chat cell sends: the prompt alone, or, in the second chat cell of the
\* toxicity notebook, a system message followed by the prompt
Messages(n, r) ==
    IF n = "toxicity" /\ r = 2
    THEN <<[role |-> "system", content |-> "<answer rudely>"],
           [role |-> "human", content |-> Question(n)]>>
    ELSE <<[role |-> "human", content |-> Question(n)]>>

\* a chat cell whose second run leaves answer as the first run bound it (a
\* mutant of ChatCell)
ChatCell_answer_kept ==
    /\ mpc = "chat"
    /\ round' = round + 1
    /\ \/ \E r \in Answers :
             /\ chat_calls' = Append(chat_calls, [messages |-> Messages(nb, round + 1),
                                                  result |-> r])
             /\ answer' = IF answer = NoText THEN r ELSE answer
             /\ UNCHANGED merror
       \/ /\ chat_calls' = Append(chat_calls, [messages |-> Messages(nb, round + 1),
                                               result |-> Failed])
          /\ merror' = "ExternalCallError"
          /\ UNCHANGED answer
    /\ mpc' = "metric"
    /\ UNCHANGED <<fvars, api_key, pvars, nb, metric, test_case, made,
                   judge_calls, shown>>

\* chat = ChatOllama(model="llama3.2"); response = chat.invoke(...);
\* answer = response.content.  The local model needs no key; its call can fail,
\* and then answer keeps what it was bound to.
ChatCell ==
    /\ mpc = "chat"
    /\ round' = round + 1
    /\ \/ \E r \in Answers :
             /\ chat_calls' = Append(chat_calls, [messages |-> Messages(nb, round + 1),
                                                  result |-> r])
             /\ answer' = r
             /\ UNCHANGED merror
       \/ /\ chat_calls' = Append(chat_calls, [messages |-> Messages(nb, round + 1),
                                               result |-> Failed])
          /\ merror' = "ExternalCallError"
          /\ UNCHANGED answer
    /\ mpc' = "metric"
    /\ UNCHANGED <<fvars, api_key, pvars, nb, metric, test_case, made,
                   judge_calls, shown>>

\* metric = ToxicityMetric(model="gpt-4o-mini", include_reason=True): a new
\* instance, not measured yet
ConstructMetric ==
    /\ mpc = "metric"
    /\ metric' = [id |-> made.metrics + 1, kind |-> MetricKind(nb),
                  model |-> "gpt-4o-mini", measured |-> FALSE, case |-> 0,
                  score |-> None, reason |-> None]
    /\ made' = [made EXCEPT !.metrics = @ + 1]
    /\ mpc' = "case"
    /\ UNCHANGED <<fvars, api_key, pvars, nb, round, answer, test_case, chat_calls, judge_calls,
                   shown, merror>>

\* test_case = LLMTestCase(input=prompt, actual_output=answer, ...); answer is
\* unbound when the first chat cell failed
ConstructTestCase ==
    /\ mpc = "case"
    /\ IF answer = NoText
       THEN /\ merror' = "NameError"
            /\ mpc' = AfterCell
            /\ UNCHANGED <<test_case, made>>
       ELSE /\ test_case' = [id |-> made.cases + 1, input |-> Question(nb),
                             actual_output |-> answer]
            /\ made' = [made EXCEPT !.cases = @ + 1]
            /\ mpc' = "measure"
            /\ UNCHANGED merror
    /\ UNCHANGED <<fvars, api_key, pvars, nb, round, answer, metric, chat_calls, judge_calls,
                   shown>>

\* metric.measure(test_case) is entered: the judge model is called, which needs
\* the OpenAI client
MeasureStart ==
    /\ mpc = "measure"
    /\ IF openai_client_raises
       THEN /\ merror' = "ConfigurationError"
            /\ mpc' = AfterCell
            /\ UNCHANGED judge_calls
       ELSE /\ judge_calls' = Append(judge_calls, [metric |-> metric.id,
                                                   case |-> test_case.id,
                                                   model |-> metric.model])
            /\ mpc' = "judging"
            /\ UNCHANGED merror
    /\ UNCHANGED <<fvars, api_key, pvars, nb, round, answer, metric, test_case, made,
                   chat_calls, shown>>

\* measure returns: the instance holds the score and the reason
MeasureReturn ==
    /\ mpc = "judging"
    /\ \E sc \in Scores :
          metric' = [metric EXCEPT !.measured = TRUE, !.case = test_case.id,
                                   !.score = sc, !.reason = ReasonOf(sc)]
    /\ mpc' = "show_score"
    /\ UNCHANGED <<fvars, api_key, pvars, nb, round, answer, test_case, made,
                   chat_calls, judge_calls, shown, merror>>

\* a failed measure after which the cell goes on to display (a mutant of
\* MeasureFail)
MeasureFail_swallowed ==
    /\ mpc = "judging"
    /\ merror' = "ExternalCallError"
    /\ mpc' = "show_score"
    /\ UNCHANGED <<fvars, api_key, pvars, nb, round, answer, metric, test_case, made,
                   chat_calls, judge_calls, shown>>

\* the judge call fails: measure raises, the cell ends, nothing is displayed
MeasureFail ==
    /\ mpc = "judging"
    /\ merror' = "ExternalCallError"
    /\ mpc' = AfterCell
    /\ UNCHANGED <<fvars, api_key, pvars, nb, round, answer, metric, test_case, made,
                   chat_calls, judge_calls, shown>>

\* what a display statement of the evaluation cell leaves on the page
Display(label, value) ==
    [text |-> label \o value, round |-> round, metric |-> metric.id,
     measured |-> metric.measured, case |-> metric.case]

\* display(Markdown(f"Grade: {metric.score}"))
ShowScore ==
    /\ mpc = "show_score"
    /\ shown' = Append(shown, Display("Grade: ", metric.score))
    /\ mpc' = "show_reason"
    /\ UNCHANGED <<fvars, api_key, pvars, nb, round, answer, metric, test_case, made,
                   chat_calls, judge_calls, merror>>

\* display(Markdown(f"Reason: {metric.reason}"))
ShowReason ==
    /\ mpc = "show_reason"
    /\ shown' = Append(shown, Display("Reason: ", metric.reason))
    /\ mpc' = AfterCell
    /\ UNCHANGED <<fvars, api_key, pvars, nb, round, answer, metric, test_case, made,
                   chat_calls, judge_calls, merror>>

NextMetric ==
    \/ MetricSetupCell
    \/ ChatCell
    \/ ConstructMetric
    \/ ConstructTestCase
    \/ MeasureStart
    \/ MeasureReturn
    \/ MeasureFail
    \/ ShowScore
    \/ ShowReason

SpecMetric == InitMetric /\ [][NextMetric]_vars

\* any of the notebooks, run from its first cell
InitNotebooks == Init \/ InitMetric

NextNotebooks == Next \/ NextMetric

SpecNotebooks == InitNotebooks /\ [][NextNotebooks]_vars

(***************************************************************************)
(* Properties of the loop, the grade cell and the loader (checked under    *)
(* Spec).                                                                  *)
(***************************************************************************)
LoopEnded == pc \in {"loop_end", "real", "graded"}

\* the read cells have run
Loaded == pc \notin {"setup", "load"}

LoopCompleted == LoopEnded /\ error = "none"

\* a row's question as a prompt must end with it: instruction sentence, question,
\* the four lettered choices, the marker, no letter
UnansweredText(row) ==
    "Follow the answer instructions strictly, and answer only with the letter corresponding to the correct answer: "
        \o row[1] \o "\nA. " \o row[2] \o "\nB. " \o row[3] \o "\nC. " \o row[4]
        \o "\nD. " \o row[5] \o "\n - Answer:"

\* C1: when the loop over range(35, 55) has run to completion, 20 model
\* invocations were made, one per row 35..54 in ascending order, the i-th with the
\* prompt built for row 35+i-1 (it ends with that row's question, unanswered), and
\* answers holds the 20 responses, answers[i] being the response to the i-th call.
C1_OneCallPerQuestion ==
    LoopCompleted =>
        /\ Len(calls) = 20
        /\ Len(answers) = 20
        /\ RangeStop - RangeStart = 20
        /\ \A i \in 1..Len(calls) :
            /\ calls[i].q = 35 + i - 1
            /\ EndsWith(calls[i].prompt, UnansweredText(df_test[35 + i]))
            /\ i <= Len(answers) /\ answers[i] = calls[i].result

C1_Witness ==
    /\ LoopCompleted
    /\ shots = 2
    /\ Len(answers) = 20
    /\ answers[6] = "X"
    /\ calls[20].q = 54

\* the number of rows 35..54 whose letter the answer list matches
MatchesOfRun == Cardinality({i \in 1..20 : answers[i] = iloc(df_test, 35 + i - 1, 5)})

C3_FailureHalts ==
    /\ \A i \in 1..Len(calls) :
          calls[i].result = Failed =>
              /\ i = Len(calls)
              /\ error = "ExternalCallError"
              /\ LoopEnded
              /\ q = calls[i].q
              /\ Len(answers) = i - 1
    /\ (LoopEnded /\ error = "ExternalCallError") =>
          /\ Len(calls) >= 1
          /\ calls[Len(calls)].result = Failed
          /\ \A j \in 1..(Len(calls) - 1) :
                /\ calls[j].q = 35 + j - 1
                /\ answers[j] = calls[j].result
          /\ \A j \in 1..Len(calls) : calls[j].q <= q

C3_Witness ==
    /\ error = "ExternalCallError"
    /\ pc = "loop_end"
    /\ q = 38
    /\ Len(calls) = 4
    /\ Len(answers) = 3
    /\ answers[1] = "C"

\* the test file on disk has a row whose last column is none of A, B, C, D
FileHasBadRow == \E i \in 1..TestRows : TestFile(fs_test)[i][6] \notin Letters

Outstanding == {i \in 1..Len(calls) : calls[i].result = Pending}

\* C12: the loop is sequential: at most one model call is outstanding, it is the
\* latest one and the kernel waits in it; when a call is issued, the responses of
\* all earlier calls have been received and appended to answers (the statements
\* before the call of row q, q > 35, are: return and append of row q-1, the
\* pause, the prompt of row q).
C12_OneCallAtATime ==
    /\ Cardinality(Outstanding) <= 1
    /\ Outstanding # {} => (Outstanding = {Len(calls)} /\ pc = "wait")
    /\ pc = "wait" => Outstanding = {Len(calls)}
    /\ LET n == Len(events)
       IN (n > 0 /\ events[n].ev = "invoke") =>
              /\ events[n].q = calls[Len(calls)].q
              /\ Len(answers) = Len(calls) - 1
              /\ \A j \in 1..(Len(calls) - 1) :
                    calls[j].result \notin {Pending, Failed} /\ answers[j] = calls[j].result
              /\ IF Len(calls) = 1
                 THEN n = 2 /\ events[n].q = RangeStart
                 ELSE /\ events[n - 4] = Event("return", events[n].q - 1, 0)
                      /\ events[n - 3] = Event("append", events[n].q - 1, 0)
                      /\ events[n - 1] = Event("build", events[n].q, 0)

C12_Witness ==
    /\ pc = "wait"
    /\ attempts = 1
    /\ Len(calls) = 5
    /\ calls[5].result = Pending
    /\ Len(answers) = 4
    /\ answers[4] = "X"

\* C13: between two consecutive model calls the loop pauses once, for 1 second:
\* the statements from one call to the next are invoke, return, append,
\* time.sleep(1), prompt, invoke, so the pause comes after the earlier response was
\* recorded and before the later call; every pause of a run lasts 1 second.
C13_FixedDelay ==
    /\ SleepSeconds = 1
    /\ \A i \in 1..Len(events) : events[i].ev = "sleep" => events[i].secs = 1
    /\ LET n == Len(events)
       IN (n > 0 /\ events[n].ev = "invoke" /\ Len(calls) > 1) =>
              /\ events[n - 5] = Event("invoke", events[n].q - 1, 0)
              /\ events[n - 4].ev = "return"
              /\ events[n - 3] = Event("append", events[n].q - 1, 0)
              /\ events[n - 2] = Event("sleep", events[n].q - 1, 1)
              /\ events[n - 1].ev = "build"
              /\ sleeps = Len(calls) - 1

C13_Witness ==
    /\ pc = "wait"
    /\ Len(calls) = 3
    /\ sleeps = 2
    /\ events[Len(events)] = Event("invoke", 37, 0)
    /\ events[Len(events) - 2] = Event("sleep", 36, 1)

\* C14: a call is attempted at most 1 + max_retries = 3 times, by the client; the
\* loop issues one call per row and never one for a row again (each call is for
\* the row after the previous call's); a call fails only when the retries are
\* used up, and then it is the last call: the cell has ended with the error.
C14_RetriesBounded ==
    /\ max_retries = 2
    /\ llm # Undefined => llm.max_retries = max_retries
    /\ attempts + 1 <= 3
    /\ \A i \in 2..Len(calls) : calls[i].q = calls[i - 1].q + 1
    /\ \A i \in 1..Len(calls) :
          calls[i].result = Failed =>
              /\ i = Len(calls)
              /\ attempts = max_retries
              /\ LoopEnded
              /\ error = "ExternalCallError"

C14_Witness ==
    /\ pc = "loop_end"
    /\ error = "ExternalCallError"
    /\ attempts = 2
    /\ Len(calls) = 3
    /\ calls[3].result = Failed
    /\ Len(answers) = 2

\* C16: grading is repeatable and reads only: a run of the grade cell changes
\* neither answers nor real_answers, and running it again on the same lists gives
\* the same count and prints the same line.
C16_GradeRepeatable ==
    [][(pc \in {"real", "graded"} /\ pc' = "graded") =>
          /\ answers' = answers
          /\ real_answers' = real_answers
          /\ pc = "graded" => (cont' = cont /\ stdout' = stdout)]_vars

C16_Witness ==
    /\ pc = "graded"
    /\ error = "none"
    /\ answers[5] = "A"
    /\ real_answers[5] = "C"
    /\ cont = 19
    /\ Len(real_answers) = 21

\* the rendering of a row with its letter
AnsweredText(row) == UnansweredText(row) \o " " \o row[6] \o "\n\n"

\* the text before the question in every prompt of the 0-shot notebook
ZeroShotPrefix ==
    "The following are multiple choice questions (with answers) about  anatomy.\n\n"

\* the same of the 2-shot notebook: the header, then rows 0 and 1 of anatomy_val.csv
TwoShotPrefix == ZeroShotPrefix \o AnsweredText(ValFile[1]) \o AnsweredText(ValFile[2])

FewShotPrefix == IF shots = 0 THEN ZeroShotPrefix ELSE TwoShotPrefix

\* the prompt of row r: a text that depends on the files, the shot count and r only
PromptOfRow(r) == FewShotPrefix \o UnansweredText(TestFile(fs_test)[r + 1])

\* C17: the prompt sent for row q is a function of q, the two tables, the topic
\* and the shot count alone: whatever the model answered before (every reachable
\* history of responses), the prompt of the call (the latest call, in every state)
\* is the fixed few-shot prefix of the notebook followed by row q's question, and
\* all 20 prompts of a completed run start with that same prefix.
C17_PromptDependsOnRowOnly ==
    /\ pc = "call" => prompt = PromptOfRow(q)
    /\ Len(calls) > 0 =>
          calls[Len(calls)].prompt = PromptOfRow(calls[Len(calls)].q)
    /\ (LoopCompleted /\ pc = "loop_end") =>
          \A i \in 1..Len(calls) :
              SubSeq(calls[i].prompt, 1, Len(FewShotPrefix)) = FewShotPrefix

C17_Witness ==
    /\ pc = "wait"
    /\ shots = 2
    /\ Len(calls) = 3
    /\ answers = <<"X", "D">>
    /\ calls[3].prompt = PromptOfRow(37)

\* the configuration the notebooks give the client
Configured == [model |-> "gpt-4o-mini", temperature |-> 0, max_tokens |-> 1,
               max_retries |-> 2]

\* C18: every model call (the one of the configuration cell and each call of the
\* loop) is made with max_tokens = 1 and temperature = 0; llm is configured once,
\* before the loop, and has that configuration in every state of the loop.
C18_CallConfiguration ==
    /\ llm # Undefined => llm = Configured
    /\ pc \in {"wait", "append", "sleep"} => llm = Configured
    /\ \A i \in 1..Len(test_call) :
          test_call[i].max_tokens = 1 /\ test_call[i].temperature = 0
    /\ \A i \in 1..Len(calls) :
          calls[i].max_tokens = 1 /\ calls[i].temperature = 0

C18_Witness ==
    /\ pc = "sleep"
    /\ shots = 0
    /\ Len(test_call) = 1
    /\ Len(calls) = 7
    /\ calls[7].max_tokens = 1
    /\ llm = Configured

\* C19: once loaded, the tables are never changed: no cell and no step of the
\* loop changes a cell of the evaluation table or of the example table, and the
\* letters the real-answers cell takes for grading are the loaded ones.
C19_TablesUnchanged ==
    [][Loaded =>
          /\ df_test' = df_test
          /\ df_val' = df_val
          /\ pc' = "real" =>
                \A i \in 1..Len(real_answers') :
                    real_answers'[i] = TestFile(fs_test)[LocFirst + i][6]]_vars

C19_Witness ==
    /\ pc = "real"
    /\ shots = 2
    /\ df_val = ValFile
    /\ df_test = TestFile(fs_test)
    /\ Len(answers) = 20
    /\ answers[3] = "X"
    /\ real_answers[3] = "C"

\* positions the grade cell compares
Graded == 1..ZipLen(answers, real_answers)

C21_PairsSameRow ==
    /\ pc \in {"real", "graded"} =>
          /\ Len(real_answers) = 21
          /\ LocLast - LocFirst + 1 = 21
          /\ \A i \in 1..21 : real_answers[i] = TestFile(fs_test)[35 + i][6]
    /\ (pc = "graded" /\ error = "none") =>
          /\ Len(answers) = 20
          /\ ZipLen(answers, real_answers) = 20
          /\ cont = Cardinality({i \in 0..19 :
                                    answers[i + 1] = TestFile(fs_test)[35 + i + 1][6]})

C21_Witness ==
    /\ pc = "graded"
    /\ error = "none"
    /\ Len(answers) = 20
    /\ Len(real_answers) = 21
    /\ real_answers[21] = "D"
    /\ answers[20] = "X"
    /\ cont = 19

\* C22: the count the grade cell gives is between 0 and the number of answers
\* collected, which is at most 20, and the line it prints always ends "in 20":
\* after a run that stopped early with n < 20 answers the grade cell still runs,
\* counts the matches of the first n rows (35..35+n-1) and reports them out of 20.
C22_CountWithinCollected ==
    pc = "graded" =>
        /\ 0 <= cont
        /\ cont <= Len(answers)
        /\ Len(answers) <= 20
        /\ GradeTotal = 20
        /\ stdout = "Grade: " \o ToString(cont) \o " in 20"
        /\ cont = Cardinality({i \in 1..Len(answers) :
                                  answers[i] = TestFile(fs_test)[35 + i][6]})

C22_Witness ==
    /\ pc = "graded"
    /\ error = "ExternalCallError"
    /\ Len(answers) = 3
    /\ Len(calls) = 4
    /\ cont = 2
    /\ stdout = "Grade: 2 in 20"

\* the calls of the current run that returned a response
Completed == {i \in 1..Len(calls) : calls[i].result \notin {Pending, Failed}}

\* C23: the loop cell starts with answers = [], so whatever runs came before
\* (complete or ended by a failure), answers holds responses of the current run
\* only: its i-th entry is the response of this run's i-th call (row 35+i-1), it
\* has as many entries as calls of this run returned (one less while the latest
\* response is not appended yet) and never more than 20.
C23_AnswersOfLatestRun ==
    /\ Len(answers) <= 20
    /\ Len(answers) <= Len(calls)
    /\ \A i \in 1..Len(answers) :
          answers[i] = calls[i].result /\ calls[i].q = RangeStart + i - 1
    /\ Len(answers) = Cardinality(Completed) - (IF pc = "append" THEN 1 ELSE 0)
    /\ (pc = "build" /\ q = RangeStart) => answers = <<>>

\* a second run of the loop cell, waiting in its first call: response still holds
\* the letter "D" that an earlier run received for a later row
C23_Witness ==
    /\ pc = "wait"
    /\ q = RangeStart
    /\ Len(calls) = 1
    /\ answers = <<>>
    /\ response = "D"
    /\ error = "none"

\* the part of a prompt before its last question
BeforeTarget(p, row) == SubSeq(p, 1, Len(p) - Len(UnansweredText(row)))

\* no row of either test file, rendered with its letter, occurs among the answered
\* examples of the 2-shot notebook
NoTestRowInExamples ==
    \A r \in 1..TestRows :
        /\ CountOcc(TwoShotPrefix, AnsweredText(CleanTestFile[r])) = 0
        /\ CountOcc(TwoShotPrefix, AnsweredText(BadLetterTestFile[r])) = 0

\* C24: no prompt of a loop holds a row of the test table together with its
\* letter.  The prompt of a call (the latest call, in every state) ends with the
\* target row rendered without its letter, nothing following the marker; what
\* precedes it is the header alone in the 0-shot loop (the example table is the
\* test table, but no example is taken from it) and, in the 2-shot loop, the
\* header and rows 0 and 1 of the validation table with their letters, none of
\* which is a test row.
C24_NoAnsweredTestRow ==
    /\ NoTestRowInExamples
    /\ shots = 0 => ExampleTable = df_test
    /\ (shots = 2 /\ Loaded) => (ExampleTable = df_val /\ df_val = ValFile)
    /\ Len(calls) > 0 =>
          LET p == calls[Len(calls)].prompt
              row == TestFile(fs_test)[calls[Len(calls)].q + 1]
          IN /\ EndsWith(p, UnansweredText(row))
             /\ BeforeTarget(p, row) =
                    (IF shots = 0 THEN ZeroShotPrefix
                     ELSE ZeroShotPrefix \o AnsweredText(ValFile[1])
                                         \o AnsweredText(ValFile[2]))

C24_Witness ==
    /\ pc = "append"
    /\ shots = 0
    /\ fs_test = "clean"
    /\ Len(calls) = 2
    /\ calls[2].prompt = ZeroShotPrefix \o UnansweredText(CleanTestFile[37])
    /\ response = "D"

\* C25: the statements of an iteration run in the order prompt, invoke, (return,)
\* append, sleep: the latest statement of a run is always preceded by the one that
\* belongs before it, for the same row (a prompt by the pause of the row before).
\* A failed call comes right after its invoke and nothing follows it, no append
\* and no pause.  The pauses made equal the responses appended, except between
\* an append and its pause, where that pause is still to come; when the cell has
\* ended they are equal, and 20 after a completed run (a pause follows the call
\* of row 54 too).
C25_IterationOrder ==
    /\ sleeps = Len(answers) - (IF pc = "sleep" THEN 1 ELSE 0)
    /\ LoopEnded => sleeps = Len(answers)
    /\ LoopCompleted =>
          (sleeps = 20 /\ events[Len(events)] = Event("sleep", RangeStop - 1, 1))
    /\ Len(events) > 1 => events[Len(events) - 1].ev # "raise"
    /\ Len(events) > 0 =>
          LET n == Len(events)
              e == events[n]
          IN /\ e.ev = "build" =>
                   IF n = 1 THEN e.q = RangeStart
                   ELSE events[n - 1] = Event("sleep", e.q - 1, SleepSeconds)
             /\ e.ev = "invoke" => events[n - 1] = Event("build", e.q, 0)
             /\ e.ev = "return" => events[n - 1] = Event("invoke", e.q, 0)
             /\ e.ev = "append" => events[n - 1] = Event("return", e.q, 0)
             /\ e.ev = "sleep" => events[n - 1] = Event("append", e.q, 0)
             /\ e.ev = "raise" =>
                   /\ events[n - 1] = Event("invoke", e.q, 0)
                   /\ pc = "loop_end" \/ pc = "real" \/ pc = "graded"
                   /\ Len(answers) = Len(calls) - 1
                   /\ sleeps = Len(calls) - 1

C25_Witness ==
    /\ pc = "loop_end"
    /\ error = "ExternalCallError"
    /\ Len(events) = 13
    /\ events[13] = Event("raise", 37, 0)
    /\ events[12] = Event("invoke", 37, 0)
    /\ events[10] = Event("sleep", 36, 1)
    /\ sleeps = 2
    /\ Len(answers) = 2

\* the loop cell has just been started
RunStarted == pc = "build" /\ q = RangeStart /\ calls = <<>>

\* C26: a started run of the loop cell ends; when no call failed on the way (every
\* call returned), it ends after exactly 20 iterations: 20 calls, 20 answers, 20
\* pauses, q past row 54, whatever the responses were (checked under SpecLive).
C26_LoopTerminates ==
    RunStarted ~>
        (/\ pc = "loop_end"
         /\ error = "none" =>
               /\ Len(calls) = 20
               /\ Len(answers) = 20
               /\ sleeps = 20
               /\ q = RangeStop
               /\ RangeStop - RangeStart = 20)

C26_Witness ==
    /\ pc = "loop_end"
    /\ error = "none"
    /\ q = 55
    /\ Len(calls) = 20
    /\ answers[20] = "A"
    /\ answers[19] = "B"
    /\ sleeps = 20

(***************************************************************************)
(* Properties of the notebooks' environment (checked under SpecNotebooks). *)
(***************************************************************************)
\* C11: with OPENAI_API_KEY not set, a notebook makes no call of the hosted
\* model: the setup cell raises, llm is never bound, neither the configuration
\* cell nor the loop issues an invocation (the loop cell ends with an error before
\* its first call, nothing is recorded), and no metric's measure reaches the judge
\* model or displays a score.
C11_NoCallWithoutKey ==
    api_key = None =>
        /\ llm = Undefined
        /\ test_call = <<>>
        /\ calls = <<>>
        /\ answers = <<>>
        /\ \A i \in 1..Len(events) : events[i].ev # "invoke"
        /\ pc \notin {"wait", "append", "sleep"}
        /\ pc \in {"load", "test", "config", "ready"} => error = "ConfigurationError"
        /\ LoopEnded => error # "none"
        /\ judge_calls = <<>>
        /\ shown = <<>>
        /\ ~metric.measured
        /\ mpc \notin {"judging", "show_score", "show_reason"}
        /\ mpc \notin {"off", "setup"} => merror # "none"

C11_Witness ==
    /\ api_key = None
    /\ shots = 2
    /\ pc = "loop_end"
    /\ error = "NameError"
    /\ Len(events) = 1
    /\ events[1].ev = "build"

(***************************************************************************)
(* Properties of the metric notebooks (checked under SpecMetric).          *)
(***************************************************************************)
\* C15: in an evaluation cell the metric is constructed first, then the test
\* case, then measure(test_case) runs, and only after measure has returned are
\* the score and the reason read: everything displayed was read from an instance
\* that had been measured (never the unset score or reason), namely the instance
\* constructed in that cell, measured on the test case constructed in that cell.
C15_ReadAfterMeasure ==
    /\ mpc = "case" =>
          /\ metric.id = round /\ metric.id = made.metrics
          /\ ~metric.measured
          /\ made.cases < round
    /\ mpc \in {"measure", "judging"} =>
          /\ metric.id = round /\ metric.id = made.metrics
          /\ ~metric.measured
          /\ test_case.id = made.cases
          /\ test_case.actual_output = answer
    /\ mpc = "judging" =>
          judge_calls[Len(judge_calls)] =
              [metric |-> metric.id, case |-> test_case.id, model |-> "gpt-4o-mini"]
    /\ mpc \in {"show_score", "show_reason"} =>
          /\ metric.measured
          /\ metric.id = round
          /\ metric.case = test_case.id
          /\ test_case.id = made.cases
          /\ judge_calls[Len(judge_calls)].metric = metric.id
    /\ \A i \in 1..Len(shown) :
          /\ shown[i].measured
          /\ shown[i].metric = shown[i].round
          /\ shown[i].case >= 1
          /\ \E sc \in Scores :
                shown[i].text = (IF i % 2 = 1 THEN "Grade: " \o sc
                                 ELSE "Reason: " \o ReasonOf(sc))
          /\ i % 2 = 0 => shown[i].metric = shown[i - 1].metric

C15_Witness ==
    /\ nb = "toxicity"
    /\ mpc = "done"
    /\ round = 2
    /\ Len(shown) = 4
    /\ shown[1].text = "Grade: 0"
    /\ shown[3].text = "Grade: 0.5"
    /\ shown[4].metric = 2
    /\ metric.measured

\* the second evaluation cell of the toxicity notebook has constructed its test
\* case
SecondEvaluation ==
    /\ nb = "toxicity"
    /\ round = 2
    /\ mpc \in {"measure", "judging", "show_score", "show_reason", "done"}
    /\ test_case # NoTestCase

\* the chat calls that returned a response
ReturnedCalls == {i \in 1..Len(chat_calls) : chat_calls[i].result # Failed}

\* the content of the response of the latest chat call that returned
LatestResponse ==
    IF ReturnedCalls = {} THEN NoText
    ELSE chat_calls[CHOOSE i \in ReturnedCalls :
                        \A j \in ReturnedCalls : j <= i].result

\* the metric instance and the test case of the second evaluation are new
\* objects: no judge call before this cell's own was made with either, and
\* nothing displayed by the first evaluation came from this instance
FreshObjects ==
    /\ metric.id = made.metrics
    /\ test_case.id = made.cases
    /\ \A i \in 1..Len(judge_calls) :
          (judge_calls[i].metric = metric.id \/ judge_calls[i].case = test_case.id)
              => /\ i = Len(judge_calls)
                 /\ judge_calls[i].metric = metric.id
                 /\ judge_calls[i].case = test_case.id
    /\ \A i \in 1..Len(shown) : shown[i].round = 1 => shown[i].metric # metric.id
    /\ metric.measured => metric.case = test_case.id

\* what the two evaluations displayed comes from different instances measured on
\* different test cases, and the second evaluation's lines are the score and the
\* reason its own instance holds
DisplaysApart ==
    /\ \A i, j \in 1..Len(shown) :
          shown[i].round < shown[j].round =>
              /\ shown[i].metric # shown[j].metric
              /\ shown[i].case # shown[j].case
    /\ (mpc = "done" /\ Len(shown) >= 2 /\ shown[Len(shown)].round = round) =>
          /\ shown[Len(shown)].metric = metric.id
          /\ shown[Len(shown) - 1].text = "Grade: " \o metric.score
          /\ shown[Len(shown)].text = "Reason: " \o metric.reason

\* a constructed instance holds nothing of an earlier measure
NothingCarriedOver ==
    mpc \in {"case", "measure", "judging"} =>
        /\ ~metric.measured
        /\ metric.score = None
        /\ metric.reason = None
        /\ metric.case = 0

\* C27 as stated: in the toxicity notebook each of the two evaluations
\* constructs a new metric instance and a new test case, the second test case's
\* actual_output is the response to the second (system + human message) chat
\* call, what is displayed after the second measure is never the first
\* evaluation's, and no metric state carries over.
C27_Original ==
    /\ SecondEvaluation =>
          /\ Len(chat_calls) = 2
          /\ chat_calls[2].messages = Messages("toxicity", 2)
          /\ test_case.actual_output = chat_calls[2].result
          /\ FreshObjects
    /\ DisplaysApart
    /\ NothingCarriedOver

\* C27, amended: in the toxicity notebook each of the two evaluations constructs
\* a new metric instance and a new test case; the second test case's
\* actual_output is the response to the latest chat call that returned, which is
\* the second (system + human message) call when that call returned and the
\* first call when the second call raised and the evaluation cell was run
\* nonetheless; what is displayed after the second measure is the score and the
\* reason of the second instance, never the first evaluation's, and no metric
\* state carries over.
C27_SecondEvaluationOwnObjects ==
    /\ SecondEvaluation =>
          /\ Len(chat_calls) = 2
          /\ chat_calls[2].messages = Messages("toxicity", 2)
          /\ chat_calls[1].messages = Messages("toxicity", 1)
          /\ test_case.actual_output = LatestResponse
          /\ chat_calls[2].result # Failed =>
                test_case.actual_output = chat_calls[2].result
          /\ chat_calls[2].result = Failed =>
                test_case.actual_output = chat_calls[1].result
          /\ FreshObjects
    /\ DisplaysApart
    /\ NothingCarriedOver

C27_Witness ==
    /\ nb = "toxicity"
    /\ mpc = "done"
    /\ round = 2
    /\ Len(chat_calls) = 2
    /\ chat_calls[1].result = "<polite answer>"
    /\ chat_calls[2].result = "<rude answer>"
    /\ Len(chat_calls[2].messages) = 2
    /\ test_case.id = 2
    /\ test_case.actual_output = "<rude answer>"
    /\ Len(shown) = 4
    /\ shown[2].metric = 1
    /\ shown[4].metric = 2
    /\ shown[4].case = 2
    /\ shown[1].text = "Grade: 0"
    /\ shown[3].text = "Grade: 1.0"

(***************************************************************************)
(* Properties of the formatter (checked under SpecFmt).                    *)
(***************************************************************************)
\* C4: format_example with include_answer=False returns a text that ends with
\* the "Answer:" marker (nothing follows the last marker, so no letter does), and
\* with include_answer=True a text in which the last marker is followed by the
\* letter of the row's last column.
C4_FormatExampleAnswer ==
    fop = "format_example" =>
        /\ Occurrences(fout, MARKER) # {}
        /\ IF farg.inc
           THEN Strip(AfterLast(fout, MARKER)) = iloc(rows, farg.idx, 5)
           ELSE AfterLast(fout, MARKER) = ""

C4_Witness ==
    /\ fop = "format_example"
    /\ farg.inc
    /\ farg.idx = 1
    /\ iloc(rows, 1, 5) = "C"
    /\ Strip(AfterLast(fout, MARKER)) = "C"

\* the table of the literal scenario
ScenarioRows == <<(<<"Q1", "A1", "A2", "A3", "A4", "A">>)>>

ScenarioCall ==
    /\ fop = "format_example"
    /\ rows = ScenarioRows
    /\ farg.idx = 0
    /\ ~farg.inc

FirstLine(text) ==
    IF Occurrences(text, "\n") = {} THEN text
    ELSE SubSeq(text, 1, SetMin(Occurrences(text, "\n")) - 1)

QuestionsOf(df, i, j) == {iloc(df, r, 0) : r \in i..j}

\* the text of a prompt after its header
AfterHeader(text, subject) == SubSeq(text, Len(header(subject)) + 1, Len(text))

\* the n-th element (1-based) of a set of positions, in ascending order
NthPos(S, n) == CHOOSE x \in S : Cardinality({y \in S : y < x}) = n - 1

\* C7: after the header, the text of gen_prompt(rows, topic, k) is made of
\* exactly k rendered examples; the j-th of them is format_example(rows, j-1, True)
\* (rows 0..k-1, ascending); a row past k-1 whose question is none of theirs does
\* not appear.
C7_GenPromptFirstRows ==
    (fop = "gen_prompt" /\ farg.k <= shape0(rows)) =>
        LET body == AfterHeader(fout, farg.topic)
            starts == Occurrences(body, INSTRUCTION)
        IN /\ StartsWith(fout, header(farg.topic))
           /\ Cardinality(starts) = farg.k
           /\ \A j \in 1..farg.k :
                  LET from == NthPos(starts, j)
                      to == IF j < farg.k THEN NthPos(starts, j + 1) - 1 ELSE Len(body)
                  IN SubSeq(body, from, to) = format_example(rows, j - 1, TRUE)
           /\ farg.k > 0 => NthPos(starts, 1) = 1
           /\ farg.k = 0 => body = ""
           /\ \A r \in farg.k..(shape0(rows) - 1) :
                  iloc(rows, r, 0) \notin QuestionsOf(rows, 0, farg.k - 1)
                      => CountOcc(fout, iloc(rows, r, 0)) = 0

C7_Witness ==
    /\ fop = "gen_prompt"
    /\ farg.k = 1
    /\ shape0(rows) = 2
    /\ iloc(rows, 0, 0) = "Q2"
    /\ iloc(rows, 1, 0) = "Q1"
    /\ CountOcc(fout, "Q2") = 1
    /\ CountOcc(fout, "Q1") = 0

\* C8: with shot_count = 0 the prompt (gen_prompt text + format_example of the
\* target without its answer) is the header followed by the one target question:
\* one rendered question, one "Answer:" marker, at the very end, no letter after it.
C8_ZeroShotPrompt ==
    (fop = "prompt" /\ farg.k = 0) =>
        /\ fout = header(farg.topic) \o format_example(rows, farg.idx, FALSE)
        /\ CountOcc(fout, INSTRUCTION) = 1
        /\ CountOcc(fout, MARKER) = 1
        /\ AfterLast(fout, MARKER) = ""
        /\ CountOcc(fout, iloc(rows, farg.idx, 0)) = 1

C8_Witness ==
    /\ fop = "prompt"
    /\ farg.k = 0
    /\ shape0(rows) = 2
    /\ farg.idx = 1
    /\ EndsWith(fout, "A4\n - Answer:")

\* C9: gen_prompt with a shot count greater than the number of rows of the table
\* fails with an OutOfRangeError and returns no text.
C9_GenPromptOutOfRange ==
    (fop = "gen_prompt" /\ farg.k > shape0(rows)) =>
        /\ ferr = "OutOfRangeError"
        /\ fout = NoText

C9_Witness ==
    /\ fop = "gen_prompt"
    /\ shape0(rows) = 1
    /\ farg.k = 2
    /\ ferr = "OutOfRangeError"

====
